---- MODULE Spec2Model ----
(***************************************************************************)
(* A model of the Voronoi rover boards of webgl_voronoi.                   *)
(*                                                                         *)
(* The repository holds several generations of the same animation:        *)
(*   "dynamic"  src/src/routes/index.svelte:1-331   rovers are spawned on *)
(*              a random draw, pruned above MAX_ROVERS and deleted beyond  *)
(*              the clip distance; frame governor                          *)
(*   "respawn"  src/src/routes/index.svelte:333-690 a fixed set of rovers  *)
(*              respawned in place; frame governor; in-place buffer        *)
(*   "gpu"      src/unnamed/part_000  the respawn board drawing through    *)
(*              initBuffers(Array.from(voronoi.cellPolygons()))            *)
(*   "entered"  src/unnamed/part_001  the first board: no governor, rovers *)
(*              deleted once they have entered and left the screen         *)
(*   "star"     src/unnamed/part_003  Game with ShootingStar vertices      *)
(*                                                                         *)
(* Numbers.  JavaScript numbers are modelled in fixed point: lengths in    *)
(* thousandths of a pixel, angles in milliradians, ratios (slopes, sines,  *)
(* cosines) in thousandths.  Infinity, -Infinity and NaN are kept as three *)
(* values outside the finite range and follow the IEEE rules.              *)
(***************************************************************************)
EXTENDS Integers, Sequences, FiniteSets, TLC

\* const x = v: the value is computed once and used as x
Const(v, F(_)) == CHOOSE res \in {F(x) : x \in {v}} : TRUE

(***************************************************************************)
(* IEEE special values                                                     *)
(***************************************************************************)
PosInf == 1000000000
NegInf == -1000000000
NaN == 2000000000

IsNaN(a) == a = NaN
IsInf(a) == a = PosInf \/ a = NegInf
IsFinite(a) == ~IsNaN(a) /\ ~IsInf(a)

\* n pixels (or n units) as a fixed-point number
Px(n) == 1000 * n

Abs(a) == IF a < 0 THEN -a ELSE a
Sgn(a) == IF a < 0 THEN -1 ELSE IF a > 0 THEN 1 ELSE 0

\* integer quotient rounded to the nearest integer, b # 0
RoundDiv(a, b) ==
    LET n == IF b < 0 THEN -a ELSE a
        d == Abs(b)
    IN  (2 * n + d) \div (2 * d)

Neg(a) == IF IsNaN(a) THEN NaN ELSE -a

Add(a, b) ==
    IF IsNaN(a) \/ IsNaN(b) THEN NaN
    ELSE IF IsInf(a) /\ IsInf(b) THEN (IF a = b THEN a ELSE NaN)
    ELSE IF IsInf(a) THEN a
    ELSE IF IsInf(b) THEN b
    ELSE a + b

Sub(a, b) == Add(a, Neg(b))

\* a * b where b is a ratio in thousandths
Mul(a, b) ==
    IF IsNaN(a) \/ IsNaN(b) THEN NaN
    ELSE IF IsInf(a) \/ IsInf(b)
         THEN (IF a = 0 \/ b = 0 THEN NaN
               ELSE IF Sgn(a) = Sgn(b) THEN PosInf ELSE NegInf)
    ELSE RoundDiv(a * b, 1000)

\* a / b, the quotient in thousandths (zero is +0, as every zero divisor of
\* the boards is: sin(0)/cos(0), x - x)
Div(a, b) ==
    IF IsNaN(a) \/ IsNaN(b) THEN NaN
    ELSE IF IsInf(a) /\ IsInf(b) THEN NaN
    ELSE IF IsInf(a) THEN (IF (a > 0) = (b >= 0) THEN PosInf ELSE NegInf)
    ELSE IF IsInf(b) THEN 0
    ELSE IF b = 0 THEN (IF a = 0 THEN NaN ELSE IF a > 0 THEN PosInf ELSE NegInf)
    ELSE RoundDiv(a * 1000, b)

\* a / n for a plain integer n # 0 (speed / TARGET_FPS)
DivInt(a, n) ==
    IF IsNaN(a) THEN NaN
    ELSE IF IsInf(a) THEN (IF (a > 0) = (n > 0) THEN PosInf ELSE NegInf)
    ELSE RoundDiv(a, n)

\* comparisons: every comparison with NaN is false
Lt(a, b) == ~IsNaN(a) /\ ~IsNaN(b) /\ a < b
Gt(a, b) == Lt(b, a)
Leq(a, b) == ~IsNaN(a) /\ ~IsNaN(b) /\ a <= b

\* Math.max, Math.min
MathMax(a, b) == IF IsNaN(a) \/ IsNaN(b) THEN NaN ELSE IF a > b THEN a ELSE b
MathMin(a, b) == IF IsNaN(a) \/ IsNaN(b) THEN NaN ELSE IF a < b THEN a ELSE b

(***************************************************************************)
(* Math.sin, Math.cos, Math.atan in fixed point                            *)
(***************************************************************************)
\* x * y / 1000, both in thousandths
FMul(u, w) == RoundDiv(u * w, 1000)

\* sine and cosine of 0 <= x <= pi/2 by their Taylor series
SinQ(r) ==
    LET x2 == FMul(r, r)
        x3 == FMul(x2, r)
        x5 == FMul(x3, x2)
        x7 == FMul(x5, x2)
        x9 == FMul(x7, x2)
    IN  r - RoundDiv(x3, 6) + RoundDiv(x5, 120) - RoundDiv(x7, 5040)
          + RoundDiv(x9, 362880)

CosQ(r) ==
    LET x2 == FMul(r, r)
        x4 == FMul(x2, x2)
        x6 == FMul(x4, x2)
        x8 == FMul(x6, x2)
    IN  1000 - RoundDiv(x2, 2) + RoundDiv(x4, 24) - RoundDiv(x6, 720)
          + RoundDiv(x8, 40320)

SinPos(a) ==
    LET r == a % 6283
    IN  IF r <= 1571 THEN SinQ(r)
        ELSE IF r <= 3142 THEN SinQ(3142 - r)
        ELSE IF r <= 4712 THEN -SinQ(r - 3142)
        ELSE -SinQ(6283 - r)

CosPos(a) ==
    LET r == a % 6283
    IN  IF r <= 1571 THEN CosQ(r)
        ELSE IF r <= 3142 THEN -CosQ(3142 - r)
        ELSE IF r <= 4712 THEN -CosQ(r - 3142)
        ELSE CosQ(6283 - r)

MathSin(a) ==
    IF ~IsFinite(a) THEN NaN
    ELSE IF a < 0 THEN -SinPos(-a) ELSE SinPos(a)

MathCos(a) ==
    IF ~IsFinite(a) THEN NaN
    ELSE IF a < 0 THEN CosPos(-a) ELSE CosPos(a)

\* arctangent of 0 <= u <= 1:  (pi/4) u + u (1 - u) (0.2447 + 0.0663 u)
AtanU(u) ==
    RoundDiv(785 * u, 1000)
      + RoundDiv(FMul(u, 1000 - u) * (2447 + RoundDiv(663 * u, 1000)), 10000)

MathAtan(t) ==
    IF IsNaN(t) THEN NaN
    ELSE IF t = PosInf THEN 1571
    ELSE IF t = NegInf THEN -1571
    ELSE IF Abs(t) <= 1000 THEN Sgn(t) * AtanU(Abs(t))
    ELSE Sgn(t) * (1571 - AtanU(RoundDiv(1000000, Abs(t))))

(***************************************************************************)
(* Program constants                                                       *)
(***************************************************************************)
TARGET_FPS_dynamic == 30
TARGET_FPS_respawn == 30
CUTOFF_FPS_dynamic == 25
CUTOFF_FPS_respawn == 25
CLIP_DISTANCE_dynamic == 100
CLIP_DISTANCE_respawn == 100
ROVER_MIN_SPEED == 100
ROVER_MAX_SPEED == 1000
MAX_ROVERS == 10
TARGET_FPS_gpu == 10
CUTOFF_FPS_gpu == 1
CLIP_DISTANCE_gpu == 100
TARGET_FPS_entered == 60
CLIP_DISTANCE_entered == 10
\* the default of the Rover constructor's speed parameter
DEFAULT_SPEED == 100
NUM_FIXED_POINTS == 63
NUM_SHOOTING_STARS == 1
NUM_VERTICES == NUM_FIXED_POINTS + NUM_SHOOTING_STARS
\* ShootingStar.reset: this.speed = 50
STAR_SPEED == 50
\* the side of the square the shooting stars cross
STAR_FIELD == 255

(***************************************************************************)
(* Bounds of the model                                                     *)
(***************************************************************************)
\* the canvas is ArenaPx x ArenaPx pixels (clientWidth, clientHeight)
ArenaPx == 40
\* the constructor's cutoffMinFrames is drawn from 1..MaxCutoffMinFrames
MaxCutoffMinFrames == 2
\* Date.now() stays within 0..MaxClockMs
MaxClockMs == 40
\* the constructor's numRovers is drawn from 0..MaxNumRovers
MaxNumRovers == 1
\* the dynamic boards hold at most MaxLiveRovers rovers
MaxLiveRovers == 1
\* direct calls of loop() leave numFramesBelowCutoff <= MaxLowFrames
MaxLowFrames == 3
\* a diagram leaves out at most MaxAbsent cell polygons
MaxAbsent == 1
\* a board is followed while its rovers' finite coordinates stay within
\* MaxCoordPx pixels of the origin
MaxCoordPx == 80
\* a rover's flight is followed for MaxFlight move steps
MaxFlight == 150
\* the pixels by which the fixed-point chord may miss a point of its line
NearPx == 2
\* a crowded board is followed for MaxCrowdTicks calls of loop()
MaxCrowdTicks == 13

Variants == {"dynamic", "respawn", "gpu", "entered", "star"}

TARGET_FPS(v) ==
    CASE v = "dynamic" -> TARGET_FPS_dynamic
      [] v = "respawn" -> TARGET_FPS_respawn
      [] v = "gpu" -> TARGET_FPS_gpu
      [] v = "entered" -> TARGET_FPS_entered
      [] v = "star" -> 0

\* the cutoffFramerate a board is built with; the "entered" board keeps none
CUTOFF_FPS(v) ==
    CASE v = "dynamic" -> CUTOFF_FPS_dynamic
      [] v = "respawn" -> CUTOFF_FPS_respawn
      [] v = "gpu" -> CUTOFF_FPS_gpu
      [] v \in {"entered", "star"} -> 0

CLIP_DISTANCE(v) ==
    CASE v = "dynamic" -> Px(CLIP_DISTANCE_dynamic)
      [] v = "respawn" -> Px(CLIP_DISTANCE_respawn)
      [] v = "gpu" -> Px(CLIP_DISTANCE_gpu)
      [] v = "entered" -> Px(CLIP_DISTANCE_entered)
      [] v = "star" -> 0

\* context.canvas.clientWidth, context.canvas.clientHeight
ClientWidth == Px(ArenaPx)
ClientHeight == Px(ArenaPx)

(***************************************************************************)
(* The random source and the clock: the values each draw may take          *)
(***************************************************************************)
\* Date.now() - previousFrameTimestampMs: a clock set back, a call in the
\* same millisecond (fps = Infinity), a frame of exactly 25 fps
ElapsedMs == {-40, 0, 40}
\* Math.random() * clientWidth, Math.random() * clientHeight
Anchors == {<<ClientWidth \div 2, ClientHeight \div 4>>, <<ClientWidth \div 4, 0>>}
\* Math.random() * 2 * Math.PI
Angles == {0, 464, 2678}
\* Math.random() < 0.5
Sides == {0, 1}
\* the values of Math.random() followed in randomRange, as <<numerator,
\* denominator>>: 0, 8/9 and 0.999
Randoms == {<<0, 1>>, <<8, 9>>, <<999, 1000>>}
\* return Math.random() * (max - min) + min
randomRange(random, min, max) == (random[1] * (max - min)) \div random[2] + min
\* randomRange(ROVER_MIN_SPEED, ROVER_MAX_SPEED); Math.random() * 50 + 50
SpeedsRespawn == {Px(ROVER_MAX_SPEED) - Px(ROVER_MIN_SPEED)}
SpeedsDynamic == {Px(90)}
\* Math.random() * 255
StarCoords == {Px(100)}
\* ColorTools.randomShootingStarColor()
StarColors == {"star1", "star2"}
\* RGB.randomBright()
BrightColors == {"bright1", "bright2"}

(***************************************************************************)
(* Vector2, Point, Rover                                                   *)
(***************************************************************************)
Null == <<>>
Vector2(x0, y0) == <<x0, y0>>
X(v) == v[1]
Y(v) == v[2]
minus(a, b) == Vector2(Sub(X(a), X(b)), Sub(Y(a), Y(b)))
plus(a, b) == Vector2(Add(X(a), X(b)), Add(Y(a), Y(b)))

Point(location, color) == [location |-> location, color |-> color]
Rover(location, spawn, despawn, speed, color) ==
    [location |-> location, spawn |-> spawn, despawn |-> despawn,
     speed |-> speed, color |-> color, hasEnteredScreen |-> FALSE]

(***************************************************************************)
(* Spawner: the chord through a random anchor at a random angle            *)
(***************************************************************************)
\* the comparator of pointsOfInterest.sort: a.x - b.x
CompareX(a, b) == Sub(X(a), X(b))

\* The orders Array.prototype.sort may leave the four points in.  With a
\* consistent comparator the sort is stable and the order is unique.  A NaN
\* difference makes the comparator inconsistent and the order
\* implementation-defined: any order in which no neighbour pair is known to
\* be out of order.
SortOrders(pts) ==
    LET n == Len(pts)
        consistent == \A i, j \in 1..n : ~IsNaN(CompareX(pts[i], pts[j]))
        before(i, j) ==
            \/ Lt(CompareX(pts[i], pts[j]), 0)
            \/ CompareX(pts[i], pts[j]) = 0 /\ i < j
    IN  IF consistent
        THEN {p \in Permutations(1..n) :
                 \A k \in 1..(n - 1) : before(p[k], p[k + 1])}
        ELSE {p \in Permutations(1..n) :
                 \A k \in 1..(n - 1) : ~Gt(CompareX(pts[p[k]], pts[p[k + 1]]), 0)}

\* "if the spawn is beyond the clip distance, move it inward"
ClampSpawn(spawn, xmax, ymax, clip) ==
    Vector2(MathMin(MathMax(X(spawn), 0 - clip), xmax + clip),
            MathMin(MathMax(Y(spawn), 0 - clip), ymax + clip))

\* the board that does not clamp its spawn point
KeepSpawn(spawn, xmax, ymax, clip) == spawn

\* const m = Math.sin(angle) / Math.cos(angle)
Slope(angle) == Div(MathSin(angle), MathCos(angle))

\* const b = location.y - m * location.x
Intercept(location, m) == Sub(Y(location), Mul(X(location), m))

\* the points where the line meets y = 0, y = ymax, x = 0 and x = xmax
PointsOfInterest(m, b, xmax, ymax) ==
    <<Vector2(Div(Neg(b), m), 0), Vector2(Div(Sub(ymax, b), m), ymax),
      Vector2(0, b), Vector2(xmax, Add(Mul(xmax, m), b))>>

\* one extreme point of the sorted array is the spawn, the other the despawn;
\* clamp tells whether the board clamps the spawn point
SpawnAndDespawn(pointsOfInterest, side, xmax, ymax, clip, clamp) ==
    {LET first == pointsOfInterest[p[1]]
         last == pointsOfInterest[p[Len(pointsOfInterest)]]
         spawn == IF side = 0 THEN first ELSE last
         despawn == IF side = 0 THEN last ELSE first
     IN  [spawn |-> IF clamp THEN ClampSpawn(spawn, xmax, ymax, clip)
                    ELSE KeepSpawn(spawn, xmax, ymax, clip),
          despawn |-> despawn] : p \in SortOrders(pointsOfInterest)}

\* The chords one set of draws can give: [spawn, despawn] records.
Chords(location, angle, side, xmax, ymax, clip, clamp) ==
    UNION {UNION {UNION {SpawnAndDespawn(pts, side, xmax, ymax, clip, clamp) :
                            pts \in {PointsOfInterest(m, b, xmax, ymax)}} :
                     b \in {Intercept(location, m)}} :
              m \in {Slope(angle)}}

(***************************************************************************)
(* Mover                                                                   *)
(***************************************************************************)
\* Math.atan(dTotal.y / dTotal.x)
TravelAngle(spawn, despawn) ==
    Const(minus(despawn, spawn), LAMBDA dTotal :
        Const(Div(Y(dTotal), X(dTotal)), LAMBDA ratio : MathAtan(ratio)))

\* the displacement of one frame
Displacement(spawn, despawn, speed, targetFps) ==
    Const(TravelAngle(spawn, despawn), LAMBDA angle :
        Const(DivInt(speed, targetFps), LAMBDA distanceThisFrame :
            Vector2(Mul(distanceThisFrame, MathCos(angle)),
                    Mul(distanceThisFrame, MathSin(angle)))))

\* rover.location = rover.location.plus(d)
MoveRover(rover, targetFps) ==
    Const(Displacement(rover.spawn, rover.despawn, rover.speed, targetFps),
          LAMBDA d : [rover EXCEPT !.location = plus(rover.location, d)])

\* "beyond the clip distance"
BeyondClip(location, xmax, ymax, clip) ==
    \/ Lt(X(location), 0 - clip)
    \/ Gt(X(location), xmax + clip)
    \/ Lt(Y(location), 0 - clip)
    \/ Gt(Y(location), ymax + clip)

(***************************************************************************)
(* Frame governor                                                          *)
(***************************************************************************)
\* const fps = 1000 / timeElapsedMs
Fps(timeElapsedMs) == Div(Px(1000), Px(timeElapsedMs))

CountLowFrames_noreset(count, fps, cutoffFramerate) ==
    IF Gt(fps, Px(cutoffFramerate)) THEN count ELSE count + 1

CountLowFrames_geq(count, fps, cutoffFramerate) ==
    IF ~Lt(fps, Px(cutoffFramerate)) THEN 0 ELSE count + 1

\* if (fps > cutoffFramerate) numFramesBelowCutoff = 0 else numFramesBelowCutoff++
CountLowFrames(count, fps, cutoffFramerate) ==
    IF Gt(fps, Px(cutoffFramerate)) THEN 0 ELSE count + 1

Returns_never(isStopped) == FALSE

\* if (this.stopped) { console.debug(...); return; }
Returns(isStopped) == isStopped

StopFlag_late(wasStopped, count, minFrames) ==
    IF count > minFrames + 1 THEN TRUE ELSE wasStopped

StopFlag_early(wasStopped, count, minFrames) ==
    IF count >= minFrames THEN TRUE ELSE wasStopped

StopFlag_unlatched(wasStopped, count, minFrames) == count > minFrames

\* if (numFramesBelowCutoff > cutoffMinFrames) stopped = true
StopFlag(wasStopped, count, minFrames) ==
    IF count > minFrames THEN TRUE ELSE wasStopped

(***************************************************************************)
(* Tessellation (d3-delaunay), seen through its contract                   *)
(***************************************************************************)
\* the points of a flat coordinate buffer x y x y ...
Generators(buffer) ==
    [i \in 1..(Len(buffer) \div 2) |-> Vector2(buffer[2 * i - 1], buffer[2 * i])]

RECURSIVE Flatten(_)
Flatten(locations) ==
    IF locations = <<>> THEN <<>>
    ELSE <<X(Head(locations)), Y(Head(locations))>> \o Flatten(Tail(locations))

\* The generators whose cell polygon may be absent: a point that is not
\* finite, lies outside the diagram's bounds, or coincides with another one.
MayBeAbsent(points, xmin, ymin, xmax, ymax) ==
    {i \in 1..Len(points) :
        \/ ~IsFinite(X(points[i])) \/ ~IsFinite(Y(points[i]))
        \/ X(points[i]) < xmin \/ X(points[i]) > xmax
        \/ Y(points[i]) < ymin \/ Y(points[i]) > ymax
        \/ \E j \in 1..Len(points) : j # i /\ points[j] = points[i]}

\* what one diagram may leave out: at most MaxAbsent cells
AbsentChoices(points, x0, y0, x1, y1) ==
    {A \in SUBSET MayBeAbsent(points, x0, y0, x1, y1) : Cardinality(A) <= MaxAbsent}

(***************************************************************************)
(* State                                                                   *)
(***************************************************************************)
VARIABLES
    variant,                  \* which board runs
    cutoffFramerate,          \* GameBoard.cutoffFramerate
    cutoffMinFrames,          \* GameBoard.cutoffMinFrames
    fixedPoints,              \* GameBoard.fixedPoints
    rovers,                   \* GameBoard.rovers
    delaunayInput,            \* the coordinates handed to the tessellation
    previousFrameTimestampMs, \* GameBoard.previousFrameTimestampMs
    numFramesBelowCutoff,     \* GameBoard.numFramesBelowCutoff
    stopped,                  \* GameBoard.stopped
    started,                  \* init() has made its call of loop()
    timers,                   \* pending setTimeout callbacks
    shootingStars,            \* Game.shootingStars
    fixedVertices,            \* Game.fixedVertices: x y x y ...
    fixedVertexColors,        \* Game.fixedVertexColors: r g b a r g b a ...
    unmounted,                \* the host component has been unmounted
    argument,                 \* the argument of a step that is applied on its own
    last                      \* what the latest call of loop() did

vars == <<variant, cutoffFramerate, cutoffMinFrames, fixedPoints, rovers,
          delaunayInput, previousFrameTimestampMs, numFramesBelowCutoff,
          stopped, started, timers, shootingStars, fixedVertices,
          fixedVertexColors, unmounted,
          argument, last>>

config == <<variant, cutoffFramerate, cutoffMinFrames, fixedPoints, argument>>

\* the record of a call of loop()
Call(lowRun, ran, respawned, absent, rendered, threw, scheduled) ==
    [lowRun |-> lowRun, ran |-> ran, respawned |-> respawned,
     absent |-> absent, rendered |-> rendered, threw |-> threw,
     scheduled |-> scheduled]

NoCall == Call(0, FALSE, {}, {}, <<>>, FALSE, FALSE)

\* 1000 / timeElapsedMs <= cutoff, in exact arithmetic
LowFps(timeElapsedMs, cutoff) ==
    \/ timeElapsedMs < 0
    \/ timeElapsedMs > 0 /\ 1000 <= cutoff * timeElapsedMs

\* the number of calls in a row, the latest included, whose fps was at most
\* the cutoff
LowRun(timeElapsedMs) ==
    IF LowFps(timeElapsedMs, cutoffFramerate) THEN last.lowRun + 1 ELSE 0

hasGovernor == variant \in {"dynamic", "respawn", "gpu"}
respawnsInPlace == variant \in {"respawn", "gpu"}

xmax == ClientWidth
ymax == ClientHeight
clip == CLIP_DISTANCE(variant)

(***************************************************************************)
(* Construction                                                            *)
(***************************************************************************)
FixedLocations == {Vector2(ClientWidth \div 4, ClientHeight \div 2),
                   Vector2(ClientWidth \div 2, ClientHeight \div 2)}

\* the fixedPoints a constructor can build: numFixedPoints = 2
FixedPointChoices ==
    {<<Point(Vector2(ClientWidth \div 4, ClientHeight \div 2), "dark1"),
       Point(l2, "dark2")>> : l2 \in FixedLocations}

RECURSIVE Products(_)
\* the sequences whose i-th element is drawn from the i-th set
Products(sets) ==
    IF sets = <<>> THEN {<<>>}
    ELSE {<<h>> \o t : h \in Head(sets), t \in Products(Tail(sets))}

\* new Rover(new Vector2(0, 0), null, null, randomRange(...), RGB.randomBright())
InitialRovers(n) ==
    Products([i \in 1..n |->
        {Rover(Vector2(0, 0), Null, Null, sp, c) :
            sp \in SpeedsRespawn, c \in BrightColors}])

\* the assignments of this.fixedPoints.forEach in the constructor, in
\* order: point i (from 1) writes its x at offset and its y at offset + 1,
\* offset = 2 * index (offsets from 0)
FixedWrites(fixed) ==
    [k \in 1..(2 * Len(fixed)) |->
        LET i == (k + 1) \div 2
            offset == 2 * (i - 1)
        IN  IF k % 2 = 1
            THEN [offset |-> offset, value |-> X(fixed[i].location),
                  coordinate |-> "x", point |-> i]
            ELSE [offset |-> offset + 1, value |-> Y(fixed[i].location),
                  coordinate |-> "y", point |-> i]]

\* the assignments of this.rovers.forEach in the constructor, in order: with
\* offset = 2 * (index + this.fixedPoints.length),
\*   this.delaunayInput[offset] = rover.location.x;
\*   this.delaunayInput[offset] = rover.location.y;
RoverWrites(fixed, rvs) ==
    [k \in 1..(2 * Len(rvs)) |->
        LET j == (k + 1) \div 2
            offset == 2 * ((j - 1) + Len(fixed))
        IN  IF k % 2 = 1
            THEN [offset |-> offset, value |-> X(rvs[j].location),
                  coordinate |-> "x", point |-> Len(fixed) + j]
            ELSE [offset |-> offset, value |-> Y(rvs[j].location),
                  coordinate |-> "y", point |-> Len(fixed) + j]]

RECURSIVE ApplyWrites(_, _, _)
\* the buffer after the assignments k, k + 1, ... of writes
ApplyWrites(buffer, writes, k) ==
    IF k > Len(writes) THEN buffer
    ELSE ApplyWrites([buffer EXCEPT ![writes[k].offset + 1] = writes[k].value],
                     writes, k + 1)

\* The constructor's delaunayInput: new Float64Array(2 * (F + R)), all zeros,
\* then the assignments of the two forEach loops.
InitialDelaunayInput(fixed, rvs) ==
    Const(FixedWrites(fixed) \o RoverWrites(fixed, rvs), LAMBDA writes :
        ApplyWrites([k \in 1..(2 * (Len(fixed) + Len(rvs))) |-> 0], writes, 1))

\* this.fixedVertices[this.vertexIndex + 0], [this.vertexIndex + 1] = x0, y0
SetVertex(vertices, vertexIndex, x0, y0) ==
    [vertices EXCEPT ![vertexIndex + 1] = x0, ![vertexIndex + 2] = y0]

\* the <<spawn, destination>> pairs ShootingStar.reset can draw
StarChords ==
    LET horizontal == {<<Vector2(0, a), Vector2(Px(STAR_FIELD), b)>> :
                          a \in StarCoords, b \in StarCoords}
        vertical == {<<Vector2(a, 0), Vector2(b, Px(STAR_FIELD))>> :
                        a \in StarCoords, b \in StarCoords}
    IN  UNION {{ch, <<ch[2], ch[1]>>} : ch \in horizontal \cup vertical}

\* color.r, color.g, color.b, color.a
Rgba(color) == <<<<color, "r">>, <<color, "g">>, <<color, "b">>, <<color, "a">>>>

SetColor_all(colors, colorIndex, color) ==
    [k \in 1..Len(colors) |-> Rgba(color)[((k - 1) % 4) + 1]]

\* this.game.fixedVertexColors[this.colorIndex + 0 .. 3] = color.r, g, b, a
SetColor(colors, colorIndex, color) ==
    [k \in 1..Len(colors) |->
        IF k > colorIndex /\ k <= colorIndex + 4
        THEN Rgba(color)[k - colorIndex] ELSE colors[k]]

\* ShootingStar.reset(): the games it can leave, as
\* <<star, vertices, colors>>
StarReset(star, vertices, colors) ==
    {<<[star EXCEPT !.speed = Px(STAR_SPEED), !.spawn = ch[1],
                    !.destination = ch[2]],
       SetVertex(vertices, star.vertexIndex, X(ch[1]), Y(ch[1])),
       SetColor(colors, star.colorIndex, c)>> :
        ch \in StarChords, c \in StarColors}

\* new Game(context): NUM_FIXED_POINTS vertices, then each new
\* ShootingStar(game) pushes its two coordinates and resets itself
NewGame ==
    LET fixed == [i \in 1..(2 * NUM_FIXED_POINTS) |-> CHOOSE c \in StarCoords : TRUE]
        fixedColors == [k \in 1..(4 * NUM_FIXED_POINTS) |->
                           Rgba("background")[((k - 1) % 4) + 1]]
        star == [vertexIndex |-> Len(fixed), colorIndex |-> Len(fixedColors),
                 spawn |-> Null, destination |-> Null, speed |-> 0]
    IN  {[stars |-> <<made[1]>>, vertices |-> made[2], colors |-> made[3]] :
            made \in StarReset(star, fixed \o <<0, 0>>,
                               fixedColors \o <<0, 0, 0, 0>>)}

\* new GameBoard(context, numFixedPoints, numRovers, cutoffFramerate,
\* minFrames) on the boards that belong to boards
Construct(boards, minFrames) ==
    /\ variant \in boards
    /\ cutoffFramerate = CUTOFF_FPS(variant)
    /\ cutoffMinFrames = minFrames
    /\ fixedPoints \in (IF variant = "star" THEN {<<>>} ELSE FixedPointChoices)
    /\ \E numRovers \in 0..MaxNumRovers :
          rovers \in (IF respawnsInPlace THEN InitialRovers(numRovers) ELSE {<<>>})
    /\ delaunayInput = (IF respawnsInPlace
                        THEN InitialDelaunayInput(fixedPoints, rovers)
                        ELSE <<>>)
    /\ previousFrameTimestampMs = 0
    /\ numFramesBelowCutoff = 0
    /\ stopped = FALSE
    /\ started = FALSE
    /\ timers = 0
    /\ unmounted = FALSE
    /\ \E game \in (IF variant = "star" THEN NewGame
                     ELSE {[stars |-> <<>>, vertices |-> <<>>, colors |-> <<>>]}) :
          /\ shootingStars = game.stars
          /\ fixedVertices = game.vertices
          /\ fixedVertexColors = game.colors
    /\ argument = Null
    /\ last = NoCall

\* the boards as init() constructs them
Init == Construct(Variants, MaxCutoffMinFrames)

\* the values a caller can pass for cutoffMinFrames
CutoffMinFramesArgs == {-1, 0, MaxCutoffMinFrames}

\* the boards whose constructor takes cutoffMinFrames, constructed with any
\* of these values
InitAnyArgs ==
    \E minFrames \in CutoffMinFramesArgs :
        Construct({"dynamic", "respawn", "gpu"}, minFrames)

(***************************************************************************)
(* The steps of loop()                                                     *)
(***************************************************************************)
\* every chord the draws of one spawn can give on the boards that clamp the
\* spawn (they share one clip distance)
ClampedChords ==
    UNION {Chords(a, ang, side, ClientWidth, ClientHeight,
                  Px(CLIP_DISTANCE_respawn), TRUE) :
           a \in Anchors, ang \in Angles, side \in Sides}

\* every chord a spawn can give on the "entered" board, which assigns the
\* spawn as the sort left it
UnclampedChords ==
    UNION {Chords(a, ang, side, ClientWidth, ClientHeight,
                  Px(CLIP_DISTANCE_entered), FALSE) :
           a \in Anchors, ang \in Angles, side \in Sides}

ChordChoices(v) == IF v = "entered" THEN UnclampedChords ELSE ClampedChords

RECURSIVE MoveAll(_, _)
\* this.rovers.forEach((rover) => { ...move the rover... })
MoveAll(rvs, targetFps) ==
    IF rvs = <<>> THEN <<>>
    ELSE <<MoveRover(Head(rvs), targetFps)>> \o MoveAll(Tail(rvs), targetFps)

\* the respawn condition of the boards that respawn in place
NeedsRespawn(rover) ==
    \/ rover.location = Null
    \/ rover.spawn = Null
    \/ rover.despawn = Null
    \/ BeyondClip(rover.location, xmax, ymax, clip)

Respawned_stale(rover, speed, color, chord) ==
    [rover EXCEPT !.color = color, !.speed = speed,
                  !.spawn = chord.spawn, !.despawn = chord.despawn]

\* the rover after "respawn the rover"
Respawned(rover, speed, color, chord) ==
    [rover EXCEPT !.color = color, !.speed = speed,
                  !.location = Vector2(X(chord.spawn), Y(chord.spawn)),
                  !.spawn = chord.spawn, !.despawn = chord.despawn]

\* every rover one respawn can give
RespawnOptions(rover) ==
    {Respawned(rover, sp, c, ch) :
        ch \in ChordChoices(variant), sp \in SpeedsRespawn, c \in BrightColors}

\* every rover "possibly spawn a new rover" can push (dynamic board)
SpawnOptions ==
    {Rover(Vector2(X(ch.spawn), Y(ch.spawn)), ch.spawn, ch.despawn, sp, c) :
        ch \in ChordChoices(variant), sp \in SpeedsDynamic, c \in BrightColors}

\* every rover "possibly spawn a new rover" can push ("entered" board):
\* new Rover(new Vector2(spawn.x, spawn.y), spawn, despawn)
EnteredSpawnOptions ==
    {Rover(Vector2(X(ch.spawn), Y(ch.spawn)), ch.spawn, ch.despawn,
           Px(DEFAULT_SPEED), c) :
        ch \in ChordChoices(variant), c \in BrightColors}

\* this.rovers.splice(index, 1), 1-based
RemoveAt(arr, k) == SubSeq(arr, 1, k - 1) \o SubSeq(arr, k + 1, Len(arr))

Prune_none(arr) == arr

\* "prune excess rovers"
Prune(arr) == IF Len(arr) > MAX_ROVERS THEN RemoveAt(arr, 1) ELSE arr

RECURSIVE MoveAndDelete(_, _, _, _)
\* this.rovers.forEach of the dynamic board: visit index k of the array as
\* it is now, for k up to the length at the start; a rover beyond the clip
\* distance is spliced out while the iteration goes on.
MoveAndDelete(arr, k, len, targetFps) ==
    IF k > len \/ k > Len(arr) THEN arr
    ELSE Const(MoveRover(arr[k], targetFps), LAMBDA r :
             IF BeyondClip(r.location, xmax, ymax, clip)
             THEN MoveAndDelete(RemoveAt(arr, k), k + 1, len, targetFps)
             ELSE MoveAndDelete([arr EXCEPT ![k] = r], k + 1, len, targetFps))

\* strictly inside the canvas
OnScreen(location, x1, y1) ==
    /\ Gt(X(location), 0) /\ Lt(X(location), x1)
    /\ Gt(Y(location), 0) /\ Lt(Y(location), y1)

RECURSIVE MoveAndRemove(_, _, _, _)
\* this.rovers.forEach of the "entered" board: a rover that has been on
\* screen and is now beyond the clip distance is spliced out while the
\* iteration goes on.
MoveAndRemove(arr, k, len, targetFps) ==
    IF k > len \/ k > Len(arr) THEN arr
    ELSE Const(MoveRover(arr[k], targetFps), LAMBDA r :
             IF ~r.hasEnteredScreen
             THEN MoveAndRemove(
                      [arr EXCEPT ![k] =
                          [r EXCEPT !.hasEnteredScreen =
                              OnScreen(r.location, xmax, ymax)]],
                      k + 1, len, targetFps)
             ELSE IF BeyondClip(r.location, xmax, ymax, clip)
             THEN MoveAndRemove(RemoveAt(arr, k), k + 1, len, targetFps)
             ELSE MoveAndRemove([arr EXCEPT ![k] = r], k + 1, len, targetFps))

WriteRovers_append(buffer, numFixed, rvs) ==
    buffer \o Flatten([i \in 1..Len(rvs) |-> rvs[i].location])

WriteRovers_shifted(buffer, numFixed, rvs) ==
    [k \in 1..Len(buffer) |->
        IF k <= 2 * Len(rvs)
        THEN LET j == (k + 1) \div 2
             IN  IF k % 2 = 1 THEN X(rvs[j].location) ELSE Y(rvs[j].location)
        ELSE buffer[k]]

\* "update delaunay input in-place"
WriteRovers(buffer, numFixed, rvs) ==
    [k \in 1..Len(buffer) |->
        IF k > 2 * numFixed /\ k <= 2 * (numFixed + Len(rvs))
        THEN LET j == (k - 2 * numFixed + 1) \div 2
             IN  IF k % 2 = 1 THEN X(rvs[j].location) ELSE Y(rvs[j].location)
        ELSE buffer[k]]

\* fixed point colours, then rover colours
Colors(fixed, rvs) ==
    [i \in 1..Len(fixed) |-> fixed[i].color] \o [i \in 1..Len(rvs) |-> rvs[i].color]

Locations(fixed, rvs) ==
    [i \in 1..Len(fixed) |-> fixed[i].location]
      \o [i \in 1..Len(rvs) |-> rvs[i].location]

\* "render each cell": <<generator index, fill colour>> of every cell drawn
RenderCells(colors, absent) ==
    SelectSeq([i \in 1..Len(colors) |-> <<i, colors[i]>>],
              LAMBDA cell : cell[1] \notin absent)

\* "render each cell" of the "entered" board: voronoi.cellPolygon(i).forEach
\* throws a TypeError at the first cell whose polygon is null
RenderUntilThrow(colors, absent) ==
    SelectSeq([i \in 1..Len(colors) |-> <<i, colors[i]>>],
              LAMBDA cell : \A j \in absent : cell[1] < j)

\* Array.from(this.voronoi.cellPolygons()): the cells that have a polygon,
\* in the order of their generators
CellPolygons(n, absent) ==
    SelectSeq([i \in 1..n |-> i], LAMBDA i : i \notin absent)

\* initBuffers(voronoiCells): voronoiCells.forEach((cell, index) => ...
\* this.getColor(index) ...): <<generator index, colour>> of every cell drawn
InitBuffers(colors, absent) ==
    Const(CellPolygons(Len(colors), absent), LAMBDA voronoiCells :
        [index \in 1..Len(voronoiCells) |-> <<voronoiCells[index], colors[index]>>])

\* what one pass of loop() past the governor does
Pass(rvs, buffer, respawned, absent, colors) ==
    [rovers |-> rvs, delaunayInput |-> buffer, respawned |-> respawned,
     absent |-> absent,
     rendered |-> IF variant = "gpu" THEN InitBuffers(colors, absent)
                  ELSE RenderCells(colors, absent)]

\* the passes the respawn board can make: respawn, move, write the buffer,
\* update the tessellation, render
RespawnPass ==
    UNION {UNION {UNION {
               {Pass(moved, buffer,
                     {i \in 1..Len(rovers) : NeedsRespawn(rovers[i])},
                     absent, Colors(fixedPoints, moved)) :
                   absent \in AbsentChoices(Generators(buffer), 0 - clip, 0 - clip,
                                            xmax + clip, ymax + clip)} :
               buffer \in {WriteRovers(delaunayInput, Len(fixedPoints), moved)}} :
               moved \in {MoveAll(rs, TARGET_FPS(variant))}} :
           rs \in Products([i \in 1..Len(rovers) |->
                     IF NeedsRespawn(rovers[i]) THEN RespawnOptions(rovers[i])
                     ELSE {rovers[i]}])}

\* the passes the dynamic board can make: prune, possibly spawn, move and
\* delete, tessellate, render
DynamicPass ==
    UNION {UNION {UNION {
               {Pass(moved, buffer, {}, absent, Colors(fixedPoints, moved)) :
                   absent \in AbsentChoices(Generators(buffer), 0 - clip, 0 - clip,
                                            xmax + clip, ymax + clip)} :
               buffer \in {Flatten(Locations(fixedPoints, moved))}} :
               moved \in {MoveAndDelete(pushed, 1, Len(pushed), TARGET_FPS(variant))}} :
           pushed \in {Prune(rovers)} \cup
                      (IF Len(Prune(rovers)) < MaxLiveRovers
                       THEN {Prune(rovers) \o <<r>> : r \in SpawnOptions}
                       ELSE {})}

\* loop() of a board with a frame governor; t0 is the number of timers
\* pending while it runs
GovernedLoop(t0) ==
    LET passes == IF variant = "dynamic" THEN DynamicPass ELSE RespawnPass
    IN  \E timeElapsedMs \in ElapsedMs :
        LET currentFrameTimestampMs == previousFrameTimestampMs + timeElapsedMs
            fps == Fps(timeElapsedMs)
            count == CountLowFrames(numFramesBelowCutoff, fps, cutoffFramerate)
            stop == StopFlag(stopped, count, cutoffMinFrames)
        IN  /\ currentFrameTimestampMs \in 0..MaxClockMs
            /\ previousFrameTimestampMs' = currentFrameTimestampMs
            /\ numFramesBelowCutoff' = count
            /\ stopped' = stop
            /\ IF Returns(stop)
               THEN /\ UNCHANGED <<rovers, delaunayInput>>
                    /\ timers' = t0
                    /\ last' = Call(LowRun(timeElapsedMs), FALSE, {}, {}, <<>>,
                                    FALSE, FALSE)
               ELSE \E pass \in passes :
                    /\ rovers' = pass.rovers
                    /\ delaunayInput' = pass.delaunayInput
                    /\ timers' = t0 + 1
                    /\ last' = Call(LowRun(timeElapsedMs), TRUE, pass.respawned,
                                    pass.absent, pass.rendered, FALSE, TRUE)

\* the rovers are within the part of the plane the model follows
Followed(rvs) ==
    \A i \in 1..Len(rvs) :
        /\ IsFinite(X(rvs[i].location)) => Abs(X(rvs[i].location)) <= Px(MaxCoordPx)
        /\ IsFinite(Y(rvs[i].location)) => Abs(Y(rvs[i].location)) <= Px(MaxCoordPx)

\* loop() of the "entered" board: tessellate the fixed points, render each
\* cell, possibly spawn, move, schedule
EnteredLoop(t0) ==
    LET buffer == Flatten(Locations(fixedPoints, <<>>))
        colors == Colors(fixedPoints, <<>>)
    IN  /\ UNCHANGED <<previousFrameTimestampMs, numFramesBelowCutoff, stopped>>
        /\ delaunayInput' = buffer
        /\ \E absent \in AbsentChoices(Generators(buffer), 0, 0, xmax, ymax) :
              IF absent # {}
              THEN /\ UNCHANGED rovers
                   /\ timers' = t0
                   /\ last' = Call(0, TRUE, {}, absent,
                                   RenderUntilThrow(colors, absent), TRUE, FALSE)
              ELSE /\ \E pushed \in {rovers} \cup
                                     (IF Len(rovers) < MaxLiveRovers
                                      THEN {rovers \o <<r>> : r \in EnteredSpawnOptions}
                                      ELSE {}) :
                         /\ rovers' = MoveAndRemove(pushed, 1, Len(pushed),
                                                    TARGET_FPS(variant))
                         /\ Followed(rovers')
                   /\ timers' = t0 + 1
                   /\ last' = Call(0, TRUE, {}, absent,
                                   RenderCells(colors, absent), FALSE, TRUE)

\* the displacement ShootingStar.move gives its star
StarDisplacement(star, timeDeltaMs) ==
    Const(Div(Sub(Y(star.destination), Y(star.spawn)),
              Sub(X(star.destination), X(star.spawn))), LAMBDA ratio :
        Const(MathAtan(ratio), LAMBDA travelAngle :
            Const(Mul(star.speed, timeDeltaMs), LAMBDA travelAmount :
                Vector2(Mul(travelAmount, MathCos(travelAngle)),
                        Mul(travelAngle, MathSin(travelAngle))))))

\* if (x < 0 || x > 255 || y < 0 || y > 255)
OffField(x0, y0) ==
    Lt(x0, 0) \/ Gt(x0, Px(STAR_FIELD)) \/ Lt(y0, 0) \/ Gt(y0, Px(STAR_FIELD))

\* ShootingStar.move(timeDeltaMs): the games it can leave, as
\* <<star, vertices, the star was reset, colors>>
StarMove(star, vertices, colors, timeDeltaMs) ==
    Const(StarDisplacement(star, timeDeltaMs), LAMBDA d :
        Const(Vector2(Add(vertices[star.vertexIndex + 1], X(d)),
                      Add(vertices[star.vertexIndex + 2], Y(d))), LAMBDA to :
            Const(SetVertex(vertices, star.vertexIndex, X(to), Y(to)), LAMBDA movedTo :
                IF OffField(X(to), Y(to))
                THEN {<<made[1], made[2], TRUE, made[3]>> :
                         made \in StarReset(star, movedTo, colors)}
                ELSE {<<star, movedTo, FALSE, colors>>})))

\* Game.loop(): move the star, draw, schedule
StarLoop(t0) ==
    \E timeElapsedMs \in ElapsedMs :
        LET currentFrameTimestampMs == previousFrameTimestampMs + timeElapsedMs
        IN  /\ currentFrameTimestampMs \in 0..MaxClockMs
            /\ previousFrameTimestampMs' = currentFrameTimestampMs
            /\ \E made \in StarMove(shootingStars[1], fixedVertices,
                                      fixedVertexColors, timeElapsedMs) :
                  /\ shootingStars' = <<made[1]>>
                  /\ fixedVertices' = made[2]
                  /\ fixedVertexColors' = made[4]
                  /\ last' = Call(0, TRUE, IF made[3] THEN {1} ELSE {}, {}, <<>>,
                                  FALSE, TRUE)
            /\ timers' = t0 + 1
            /\ UNCHANGED <<rovers, delaunayInput, numFramesBelowCutoff, stopped>>

Loop(t0) ==
    /\ UNCHANGED config
    /\ CASE hasGovernor ->
               GovernedLoop(t0)
               /\ UNCHANGED <<shootingStars, fixedVertices, fixedVertexColors>>
         [] variant = "entered" ->
               EnteredLoop(t0)
               /\ UNCHANGED <<shootingStars, fixedVertices, fixedVertexColors>>
         [] variant = "star" -> StarLoop(t0)

(***************************************************************************)
(* Actions                                                                 *)
(***************************************************************************)
\* init(): board.loop()
InitLoop ==
    /\ ~started
    /\ started' = TRUE
    /\ UNCHANGED unmounted
    /\ Loop(timers)

TimerFire_interval ==
    /\ timers > 0
    /\ UNCHANGED <<started, unmounted>>
    /\ Loop(timers)

\* a setTimeout callback runs: this.loop()
TimerFire ==
    /\ timers > 0
    /\ UNCHANGED <<started, unmounted>>
    /\ Loop(timers - 1)

\* The host unmounts the component.  onMount(() => { init(); }) returns no
\* cleanup function and nothing keeps the timer's handle, so no code of the
\* board runs.
Unmount ==
    /\ started
    /\ ~unmounted
    /\ unmounted' = TRUE
    /\ UNCHANGED <<variant, cutoffFramerate, cutoffMinFrames, fixedPoints, rovers,
                   delaunayInput, previousFrameTimestampMs, numFramesBelowCutoff,
                   stopped, started, timers, shootingStars, fixedVertices,
                   fixedVertexColors, argument, last>>

\* loop() is called on a board that has no callback pending
DirectLoop ==
    /\ started
    /\ timers = 0
    /\ UNCHANGED <<started, unmounted>>
    /\ Loop(timers)
    /\ numFramesBelowCutoff' <= MaxLowFrames

Next == InitLoop \/ TimerFire

NextCalls == InitLoop \/ TimerFire \/ DirectLoop

\* the program as init() runs it
Spec == Init /\ [][Next]_vars

\* the program with loop() also called by its host
SpecCalls == Init /\ [][NextCalls]_vars

NextHost == InitLoop \/ TimerFire \/ Unmount

\* the program in a host that may unmount the component
SpecHost == Init /\ [][NextHost]_vars

\* the program on a board constructed with any argument
SpecConstruct == InitAnyArgs /\ [][Next]_vars

(***************************************************************************)
(* The move step of the boards that keep a live set, on its own            *)
(***************************************************************************)
\* this.rovers.forEach((rover) => { ...move, splice... }) of the variant
MoveStepOf(arr) ==
    IF variant = "dynamic"
    THEN MoveAndDelete(arr, 1, Len(arr), TARGET_FPS(variant))
    ELSE MoveAndRemove(arr, 1, Len(arr), TARGET_FPS(variant))

\* the rovers the spawn step can push, of one colour
FreshRovers(color) ==
    {r \in (IF variant = "dynamic" THEN SpawnOptions ELSE EnteredSpawnOptions) :
        r.color = color}

RECURSIVE Run(_, _, _)
\* len move steps applied in turn to the one-rover array arr, which has been
\* moved n times before: seen holds <<rover, moves so far>> for every step
\* the rover is live at, end is the array after the last step
Run(arr, n, len) ==
    IF len = 1
    THEN [seen |-> IF arr = <<>> THEN {} ELSE {<<arr[1], n>>},
          end |-> MoveStepOf(arr)]
    ELSE Const(Run(arr, n, len \div 2), LAMBDA first :
         Const(Run(first.end, n + len \div 2, len - len \div 2), LAMBDA second :
             [seen |-> first.seen \cup second.seen, end |-> second.end]))

\* the flight of a pushed rover while it is live
Flight(r) == Run(<<r>>, 0, MaxFlight + 1).seen

\* a rover of the colour as the board can hold it when a move step starts:
\* just pushed, moved once, or about to be spliced out
RoverDraws(color) ==
    {f \in UNION {Flight(r) : r \in FreshRovers(color)} :
        f[2] <= 1 \/ MoveStepOf(<<f[1]>>) = <<>>}

\* The live sets a move step can start with: no rover, one, or two of which
\* the first was pushed in an earlier call than the second.
MoveInputs ==
    {<<>>} \cup {<<a[1]>> : a \in RoverDraws("bright1")} \cup
    {<<ab[1][1], ab[2][1]>> :
        ab \in {cd \in RoverDraws("bright1") \X RoverDraws("bright2") :
                   cd[1][2] >= 1 /\ cd[2][2] < cd[1][2]}}

\* a board whose live set is about to be moved
InitMove ==
    /\ variant \in {"dynamic", "entered"}
    /\ cutoffFramerate = CUTOFF_FPS(variant)
    /\ cutoffMinFrames = MaxCutoffMinFrames
    /\ fixedPoints \in FixedPointChoices
    /\ rovers \in MoveInputs
    /\ delaunayInput = <<>>
    /\ previousFrameTimestampMs = 0
    /\ numFramesBelowCutoff = 0
    /\ stopped = FALSE
    /\ started = TRUE
    /\ timers = 0
    /\ unmounted = FALSE
    /\ argument = Null
    /\ shootingStars = <<>>
    /\ fixedVertices = <<>>
    /\ fixedVertexColors = <<>>
    /\ last = NoCall

\* "move each rover"
MoveStep ==
    /\ ~last.ran
    /\ rovers' = MoveStepOf(rovers)
    /\ last' = Call(0, TRUE, {}, {}, <<>>, FALSE, FALSE)
    /\ UNCHANGED <<variant, cutoffFramerate, cutoffMinFrames, fixedPoints,
                   delaunayInput, previousFrameTimestampMs, numFramesBelowCutoff,
                   stopped, started, timers, unmounted, shootingStars,
                   fixedVertices, fixedVertexColors, argument>>

\* the move step applied to the live sets it can meet
SpecMove == InitMove /\ [][MoveStep]_vars

(***************************************************************************)
(* The spawner on its own                                                  *)
(***************************************************************************)
\* locations strictly inside the canvas
InteriorAnchors ==
    {Vector2(ClientWidth \div 2, ClientHeight \div 4),
     Vector2(ClientWidth \div 4, ClientHeight \div 2),
     Vector2((3 * ClientWidth) \div 4, (3 * ClientHeight) \div 4)}

\* angles in [0, 2 pi) whose line is neither vertical nor horizontal, in
\* thousandths of a radian: slopes of about 0.05, 0.5, 2, -2, -0.5, -0.05
\* and the same lines turned by pi
SlopedAngles ==
    {50, 464, 1107, 2034, 2678, 3092, 3192, 3606, 4249, 5176, 5820, 6233}

\* a board about to spawn a rover with the draws of argument
InitSpawn ==
    /\ variant \in {"dynamic", "respawn"}
    /\ cutoffFramerate = CUTOFF_FPS(variant)
    /\ cutoffMinFrames = MaxCutoffMinFrames
    /\ fixedPoints = <<>>
    /\ rovers = <<>>
    /\ delaunayInput = <<>>
    /\ previousFrameTimestampMs = 0
    /\ numFramesBelowCutoff = 0
    /\ stopped = FALSE
    /\ started = TRUE
    /\ timers = 0
    /\ unmounted = FALSE
    /\ argument \in [location : InteriorAnchors, angle : SlopedAngles, side : Sides]
    /\ shootingStars = <<>>
    /\ fixedVertices = <<>>
    /\ fixedVertexColors = <<>>
    /\ last = NoCall

\* the spawn of one rover: the chord of the draws, the rover at a copy of
\* its spawn
SpawnStep ==
    /\ ~last.ran
    /\ \E ch \in Chords(argument.location, argument.angle, argument.side,
                         xmax, ymax, clip, TRUE) :
          \E sp \in (IF variant = "dynamic" THEN SpeedsDynamic ELSE SpeedsRespawn) :
              rovers' = <<Rover(Vector2(X(ch.spawn), Y(ch.spawn)), ch.spawn,
                                ch.despawn, sp, "bright1")>>
    /\ last' = Call(0, TRUE, {}, {}, <<>>, FALSE, FALSE)
    /\ UNCHANGED <<variant, cutoffFramerate, cutoffMinFrames, fixedPoints,
                   delaunayInput, previousFrameTimestampMs, numFramesBelowCutoff,
                   stopped, started, timers, unmounted, shootingStars,
                   fixedVertices, fixedVertexColors, argument>>

\* the spawner applied to the draws it can make
SpecSpawn == InitSpawn /\ [][SpawnStep]_vars

(***************************************************************************)
(* The dynamic board when it spawns often                                  *)
(***************************************************************************)
\* the milliseconds between two calls at TARGET_FPS
FrameMs == 1000 \div TARGET_FPS_dynamic

\* the rover the crowded board spawns: through the middle of the canvas at
\* 0.464 rad, from the end of smaller x
CrowdSpawnOptions ==
    {Rover(Vector2(X(ch.spawn), Y(ch.spawn)), ch.spawn, ch.despawn, sp, "bright1") :
        ch \in Chords(Vector2(ClientWidth \div 2, ClientHeight \div 4), 464, 0,
                      ClientWidth, ClientHeight, Px(CLIP_DISTANCE_dynamic), TRUE),
        sp \in SpeedsDynamic}

\* the dynamic board as constructed
InitCrowd ==
    /\ Construct({"dynamic"}, MaxCutoffMinFrames)
    /\ Len(fixedPoints) > 0

\* a call of loop() on the dynamic board, FrameMs after the previous one:
\* the governor, the prune, the spawn draw, the move step, the Delaunay
\* input, the render with every cell present, the timer
CrowdTick ==
    /\ started => timers > 0
    /\ previousFrameTimestampMs < MaxCrowdTicks * FrameMs
    /\ previousFrameTimestampMs' = previousFrameTimestampMs + FrameMs
    /\ numFramesBelowCutoff' =
           CountLowFrames(numFramesBelowCutoff, Fps(FrameMs), cutoffFramerate)
    /\ stopped' = StopFlag(stopped, numFramesBelowCutoff', cutoffMinFrames)
    /\ ~Returns(stopped')
    /\ \E pushed \in {Prune(rovers)} \cup
                       {Prune(rovers) \o <<r>> : r \in CrowdSpawnOptions} :
          \E moved \in {MoveAndDelete(pushed, 1, Len(pushed), TARGET_FPS(variant))} :
              /\ rovers' = moved
              /\ delaunayInput' = Flatten(Locations(fixedPoints, moved))
              /\ last' = Call(0, TRUE, {}, {},
                              RenderCells(Colors(fixedPoints, moved), {}),
                              FALSE, TRUE)
    /\ started' = TRUE
    /\ timers' = 1
    /\ UNCHANGED <<variant, cutoffFramerate, cutoffMinFrames, fixedPoints,
                   unmounted, shootingStars, fixedVertices, fixedVertexColors,
                   argument>>

\* the dynamic board spawning as often as every call
SpecCrowd == InitCrowd /\ [][CrowdTick]_vars

(***************************************************************************)
(* initBuffers on its own                                                  *)
(***************************************************************************)
\* a polygon as d3-delaunay gives it: a closed ring, the first vertex again
\* at the end
Ring(vertices) == vertices \o <<vertices[1]>>

\* the cell polygons followed: the triangles and the square on the corners
\* of the canvas, and the clip rectangle
Polygons ==
    LET c1 == Vector2(0, 0)
        c2 == Vector2(ClientWidth, 0)
        c3 == Vector2(ClientWidth, ClientHeight)
        c4 == Vector2(0, ClientHeight)
        m == Px(CLIP_DISTANCE_gpu)
    IN  {Ring(<<c1, c2, c3>>), Ring(<<c2, c3, c4>>), Ring(<<c3, c4, c1>>),
         Ring(<<c4, c1, c2>>), Ring(<<c1, c2, c3, c4>>),
         Ring(<<Vector2(0 - m, 0 - m), Vector2(ClientWidth + m, 0 - m),
                Vector2(ClientWidth + m, ClientHeight + m),
                Vector2(0 - m, ClientHeight + m)>>)}

\* Array.from(this.voronoi.cellPolygons()) with at most one cell for each
\* fixed point
CellLists ==
    {<<>>} \cup {<<a>> : a \in Polygons} \cup {<<a, b>> : a, b \in Polygons}

\* scale(vertex): vertex / max * 2 - 1, in thousandths
scale(vertex) ==
    Vector2(RoundDiv(2000 * X(vertex), xmax) - 1000,
            RoundDiv(2000 * Y(vertex), ymax) - 1000)

RECURSIVE SumFrom(_, _)
\* cell.forEach(vertex => { centre[0] += vertex[0]; centre[1] += vertex[1]; })
SumFrom(cell, k) ==
    IF k > Len(cell) THEN Vector2(0, 0) ELSE plus(cell[k], SumFrom(cell, k + 1))

\* centre[0] /= cell.length; centre[1] /= cell.length; centre = this.scale(centre)
Centre(cell) ==
    Const(SumFrom(cell, 1), LAMBDA sum :
        scale(Vector2(RoundDiv(X(sum), Len(cell)), RoundDiv(Y(sum), Len(cell)))))

RECURSIVE Concat(_)
Concat(seqs) == IF seqs = <<>> THEN <<>> ELSE Head(seqs) \o Concat(Tail(seqs))

\* the numbers one cell pushes to triangles: for (let i = 0; i < cell.length - 1; i++)
\* current, next, centre
CellTriangles(cell) ==
    Const(Centre(cell), LAMBDA centre :
        Concat([i \in 1..(Len(cell) - 1) |->
                   Flatten(<<scale(cell[i]), scale(cell[i + 1]), centre>>)]))

\* the numbers one cell pushes to colors: color.r, color.g, color.b, 1 in
\* every iteration of the same loop
CellColors(cell, color) ==
    Concat([i \in 1..(Len(cell) - 1) |->
               <<<<color, "r">>, <<color, "g">>, <<color, "b">>, 1>>])

\* the arrays initBuffers uploads: new Float32Array(triangles),
\* new Float32Array(colors); the colour of a cell is this.getColor(index)
UploadedBuffers(voronoiCells, colors) ==
    [position |-> Concat([index \in 1..Len(voronoiCells) |->
                             CellTriangles(voronoiCells[index])]),
     color |-> Concat([index \in 1..Len(voronoiCells) |->
                          CellColors(voronoiCells[index], colors[index])])]

\* the board of part_000 about to build its buffers from the cells of
\* argument
InitCells ==
    /\ variant = "gpu"
    /\ cutoffFramerate = CUTOFF_FPS(variant)
    /\ cutoffMinFrames = MaxCutoffMinFrames
    /\ fixedPoints \in FixedPointChoices
    /\ rovers = <<>>
    /\ delaunayInput = InitialDelaunayInput(fixedPoints, rovers)
    /\ previousFrameTimestampMs = 0
    /\ numFramesBelowCutoff = 0
    /\ stopped = FALSE
    /\ started = TRUE
    /\ timers = 0
    /\ unmounted = FALSE
    /\ argument \in CellLists
    /\ shootingStars = <<>>
    /\ fixedVertices = <<>>
    /\ fixedVertexColors = <<>>
    /\ last = NoCall

\* context.getBufferParameter(context.ARRAY_BUFFER, context.BUFFER_SIZE) of a
\* buffer filled from new Float32Array(data): its size in bytes, four for
\* each number
BufferSize(data) == 4 * Len(data)

\* the draw: vertexCount = BUFFER_SIZE of the position buffer / 2,
\* context.drawArrays(context.TRIANGLES, offset, vertexCount)
Draw(buffers) ==
    [position |-> buffers.position, color |-> buffers.color,
     vertexCount |-> BufferSize(buffers.position) \div 2]

\* this.programInfo.buffers = this.initBuffers(...), then the draw
InitBuffersStep ==
    /\ ~last.ran
    /\ last' = Call(0, TRUE, {}, {},
                    Draw(UploadedBuffers(argument, Colors(fixedPoints, rovers))),
                    FALSE, FALSE)
    /\ UNCHANGED <<variant, cutoffFramerate, cutoffMinFrames, fixedPoints, rovers,
                   delaunayInput, previousFrameTimestampMs, numFramesBelowCutoff,
                   stopped, started, timers, unmounted, shootingStars,
                   fixedVertices, fixedVertexColors, argument>>

\* initBuffers applied to the cell lists it can be given
SpecBuffers == InitCells /\ [][InitBuffersStep]_vars

(***************************************************************************)
(* The frame governor                                                      *)
(***************************************************************************)
\* the milliseconds the clock moved in this step
StepElapsedMs == previousFrameTimestampMs' - previousFrameTimestampMs

\* C1: on a board with a frame governor, the call that completes a run of
\* cutoffMinFrames + 1 calls with fps <= cutoffFramerate sets stopped, no call
\* completing a shorter run does, and a stopped board stays stopped whatever
\* the fps of its later calls.
C1_GovernorSufficiency ==
    [][hasGovernor =>
          /\ (~stopped /\ last'.lowRun = cutoffMinFrames + 1) => stopped'
          /\ (~stopped /\ last'.lowRun <= cutoffMinFrames) => ~stopped'
          /\ stopped => stopped']_vars

\* a stopped board has been called again with fps above the cutoff
C1_Witness ==
    /\ hasGovernor /\ stopped
    /\ last.lowRun = 0 /\ numFramesBelowCutoff = 0

\* C2: no step of a board sets stopped back to false.
C2_StoppedMonotone == [][stopped => stopped']_vars

\* a stopped board has been called again, with low fps
C2_Witness == stopped /\ numFramesBelowCutoff = 1

\* C3: a call of loop() on a stopped board leaves the rovers and the
\* tessellation buffer as they were, runs no pass (no tessellation update, no
\* render call) and schedules no timer.
C3_StoppedDoesNothing ==
    [][stopped =>
          /\ rovers' = rovers
          /\ delaunayInput' = delaunayInput
          /\ ~last'.ran /\ last'.absent = {} /\ last'.rendered = <<>>
          /\ ~last'.scheduled /\ timers' <= timers]_vars

\* a stopped board with a rover has been called again
C3_Witness == stopped /\ Len(rovers) > 0 /\ numFramesBelowCutoff = 2

\* C4: on every call, numFramesBelowCutoff is incremented when
\* fps <= cutoffFramerate (fps equal to the cutoff included) and reset to 0
\* otherwise, and the board becomes stopped exactly when the updated count
\* exceeds cutoffMinFrames.
C4_GovernorStep ==
    [][hasGovernor =>
          /\ numFramesBelowCutoff' =
                 (IF LowFps(StepElapsedMs, cutoffFramerate)
                  THEN numFramesBelowCutoff + 1 ELSE 0)
          /\ (~stopped /\ stopped') <=>
                 (~stopped /\ numFramesBelowCutoff' > cutoffMinFrames)]_vars

\* a call with fps equal to the cutoff has been counted
C4_Witness ==
    /\ hasGovernor /\ ~stopped
    /\ previousFrameTimestampMs * cutoffFramerate = 1000
    /\ numFramesBelowCutoff = 1 /\ last.lowRun = 1

(***************************************************************************)
(* Rovers: lifecycle, spawn, movement                                      *)
(***************************************************************************)
\* within [-clip, xmax + clip] x [-clip, ymax + clip]
InClipRect(location) ==
    /\ Leq(0 - clip, X(location)) /\ Leq(X(location), xmax + clip)
    /\ Leq(0 - clip, Y(location)) /\ Leq(Y(location), ymax + clip)

FiniteVector(v) == IsFinite(X(v)) /\ IsFinite(Y(v))

\* rover i keeps its chord over this step, in which the rovers are moved
MovesAlongChord(i) ==
    /\ last'.ran /\ ~last'.threw
    /\ Len(rovers') = Len(rovers)
    /\ i \notin last'.respawned
    /\ rovers[i].spawn # Null /\ rovers[i].despawn # Null
    /\ rovers'[i].spawn = rovers[i].spawn
    /\ rovers'[i].despawn = rovers[i].despawn

\* C5: on a board that respawns in place, a rover whose location is outside
\* the clip rectangle at the end of one call of loop() and at the end of the
\* next was respawned during the second.
C5_NoRoverStaysOutside ==
    [][respawnsInPlace =>
          \A i \in 1..Len(rovers) :
              (~InClipRect(rovers[i].location) /\ ~InClipRect(rovers'[i].location))
                  => i \in last'.respawned]_vars

\* C6: between respawns, each step of a rover has the signs of
\* despawn - spawn in x and in y; with despawn.x < spawn.x the x-coordinate
\* decreases.
C6_DirectionPreserved ==
    [][\A i \in 1..Len(rovers) :
          (/\ MovesAlongChord(i)
           /\ FiniteVector(rovers[i].spawn) /\ FiniteVector(rovers[i].despawn)
           /\ FiniteVector(rovers[i].location))
          => LET dTotal == minus(rovers[i].despawn, rovers[i].spawn)
                 step == minus(rovers'[i].location, rovers[i].location)
             IN  /\ Sgn(X(step)) = Sgn(X(dTotal))
                 /\ Sgn(Y(step)) = Sgn(Y(dTotal))]_vars

\* C7: on every board, the spawn a rover is given lies within the clip
\* rectangle.
C7_SpawnWithinClip ==
    \A i \in 1..Len(rovers) :
        rovers[i].spawn # Null => InClipRect(rovers[i].spawn)

C9_MoverStep ==
    [][/\ Displacement(Vector2(Px(-10), Px(50)), Vector2(Px(110), Px(50)),
                       Px(100), 10) = Vector2(Px(10), 0)
       /\ respawnsInPlace =>
             \A i \in 1..Len(rovers) :
                 MovesAlongChord(i) =>
                     LET direction == TravelAngle(rovers[i].spawn, rovers[i].despawn)
                         d == DivInt(rovers[i].speed, TARGET_FPS(variant))
                     IN  rovers'[i].location =
                             plus(rovers[i].location,
                                  Vector2(Mul(d, MathCos(direction)),
                                          Mul(d, MathSin(direction))))
       /\ (variant = "star" /\ last'.respawned = {}) =>
             LET star == shootingStars[1]
                 direction == TravelAngle(star.spawn, star.destination)
                 d == Mul(star.speed, StepElapsedMs)
             IN  /\ fixedVertices'[star.vertexIndex + 1] =
                        Add(fixedVertices[star.vertexIndex + 1],
                            Mul(d, MathCos(direction)))
                 /\ fixedVertices'[star.vertexIndex + 2] =
                        Add(fixedVertices[star.vertexIndex + 2],
                            Mul(d, MathSin(direction)))]_vars

(***************************************************************************)
(* Rendering                                                               *)
(***************************************************************************)
\* C10: on every board, a call of loop() whose diagram lacks a cell polygon
\* raises no error, draws every cell that has one and schedules the next call.
C10_NullCellTolerated ==
    last.absent # {} =>
        /\ ~last.threw
        /\ last.scheduled
        /\ \A i \in 1..(Len(delaunayInput) \div 2) :
              i \notin last.absent =>
                  \E k \in 1..Len(last.rendered) : last.rendered[k][1] = i

\* C11: every cell handed to the rendering backend carries the colour of its
\* own generator, in the order fixedPoints ++ rovers, also when the polygon
\* of another generator is absent.
C11_OwnColour ==
    \A k \in 1..Len(last.rendered) :
        last.rendered[k][2] = Colors(fixedPoints, rovers)[last.rendered[k][1]]

(***************************************************************************)
(* Scheduling                                                              *)
(***************************************************************************)
\* C12: a board never has more than one next-call timer pending, and a
\* pending timer was set by a call of loop() that ran its whole pass (no
\* early return, no error) before scheduling.
C12_NoOverlap ==
    /\ timers \in {0, 1}
    /\ timers = 1 => (last.scheduled /\ last.ran /\ ~last.threw)
    /\ last.scheduled => timers = 1

\* the third consecutive call of a board has scheduled its successor
C12_Witness ==
    /\ timers = 1 /\ last.scheduled /\ last.ran
    /\ hasGovernor /\ numFramesBelowCutoff = 2

\* C13: once the host has unmounted the component, no call of loop() runs
\* and no timer is set: nothing of the board changes any more.
C13_NoTickAfterTeardown ==
    [][unmounted =>
          UNCHANGED <<previousFrameTimestampMs, numFramesBelowCutoff, stopped,
                      rovers, delaunayInput, shootingStars, fixedVertices,
                      timers, last>>]_vars

(***************************************************************************)
(* The live set                                                            *)
(***************************************************************************)
\* the rover of the new live set that is rover i of the old one (the rovers
\* of a live set differ in colour), or none
Survivors(i) == {j \in 1..Len(rovers') : rovers'[j].color = rovers[i].color}

\* C14: a rover that is live when the move step starts and live when it ends
\* has been moved exactly once by it, also when another rover is removed.
C14_MovedOnce ==
    [][\A i \in 1..Len(rovers) : \A j \in Survivors(i) :
          rovers'[j].location =
              MoveRover(rovers[i], TARGET_FPS(variant)).location]_vars

\* C15: the move step removes a rover only when the rover has been strictly
\* inside the canvas before (its entered flag is set) and is now beyond the
\* clip margin; it never clears the entered flag.
C15_RemovedOnlyAfterEntering ==
    [][\A i \in 1..Len(rovers) :
          /\ Survivors(i) = {} =>
                 /\ rovers[i].hasEnteredScreen
                 /\ BeyondClip(MoveRover(rovers[i], TARGET_FPS(variant)).location,
                               xmax, ymax, clip)
          /\ \A j \in Survivors(i) :
                 rovers[i].hasEnteredScreen => rovers'[j].hasEnteredScreen]_vars

(***************************************************************************)
(* Construction                                                            *)
(***************************************************************************)
\* C16: a board is never constructed with cutoffMinFrames <= 0: such a
\* configuration is rejected and no board exists.
C16_ConfigRejected == cutoffMinFrames > 0

(***************************************************************************)
(* Degenerate chords                                                       *)
(***************************************************************************)
\* C17: whatever angle and anchor the spawner drew, the spawn, the despawn
\* and the location a rover holds are finite numbers.
C17_FiniteRoverState ==
    \A i \in 1..Len(rovers) :
        /\ FiniteVector(rovers[i].location)
        /\ rovers[i].spawn # Null => FiniteVector(rovers[i].spawn)
        /\ rovers[i].despawn # Null => FiniteVector(rovers[i].despawn)

(***************************************************************************)
(* The frame rate of a call                                                *)
(***************************************************************************)
\* C18: a call of loop() on a governed board at which the clock has not
\* moved forward is not counted as a low frame, and the fps it computes is a
\* finite positive number.
C18_ClampedFps ==
    [][(hasGovernor /\ StepElapsedMs <= 0) =>
          /\ numFramesBelowCutoff' = 0
          /\ IsFinite(Fps(StepElapsedMs))
          /\ Gt(Fps(StepElapsedMs), 0)]_vars

(***************************************************************************)
(* The order of the steps of one call                                      *)
(***************************************************************************)
\* C19: the call of loop() at which the governor trips has respawned, moved,
\* written the buffer, tessellated and rendered; it only sets no timer.
C19_GovernorLast ==
    [][(hasGovernor /\ ~stopped /\ stopped') =>
          (last'.ran /\ ~last'.scheduled)]_vars

(***************************************************************************)
(* The tessellation's input buffer                                         *)
(***************************************************************************)
\* every assignment puts an x at offset 2p and a y at offset 2p + 1 of its
\* own point p (points and offsets from 0)
WritesAligned(writes) ==
    \A k \in 1..Len(writes) :
        writes[k].offset =
            2 * (writes[k].point - 1) + (IF writes[k].coordinate = "x" THEN 0 ELSE 1)

\* C20: on the boards that keep their buffer, from construction on the buffer
\* holds the (x, y) of every fixed point and then of every rover, each at its
\* own two offsets, and the constructor has written every coordinate to its
\* own offset.
C20_BufferAligned ==
    respawnsInPlace =>
        /\ delaunayInput = Flatten(Locations(fixedPoints, rovers))
        /\ ~started =>
               WritesAligned(FixedWrites(fixedPoints)
                                \o RoverWrites(fixedPoints, rovers))

(***************************************************************************)
(* Respawn                                                                 *)
(***************************************************************************)
\* ROVER_MIN_SPEED <= speed <= ROVER_MAX_SPEED, in thousandths
SpeedInRange(speed) == Px(ROVER_MIN_SPEED) <= speed /\ speed <= Px(ROVER_MAX_SPEED)

\* rover i was respawned in this step: it has a chord, and it is one move
\* away from a copy of its spawn
RespawnedAtSpawn(i) ==
    /\ rovers'[i].spawn # Null /\ rovers'[i].despawn # Null
    /\ rovers'[i].location =
           MoveRover([rovers'[i] EXCEPT !.location = rovers'[i].spawn],
                     TARGET_FPS(variant)).location
    /\ rovers'[i].speed \in SpeedsRespawn

\* C21: on a board that respawns in place, a rover whose location or chord
\* is unset or whose location is outside the clip rectangle at the respawn
\* check gets a chord, a location copied from the spawn and a speed drawn
\* by randomRange, and a rover that is not respawned keeps its chord and its
\* speed; every speed randomRange returns, and so every rover's speed in
\* every state, lies within [ROVER_MIN_SPEED, ROVER_MAX_SPEED].
C21_RespawnEffect ==
    /\ [](/\ \A r \in Randoms :
               SpeedInRange(randomRange(r, Px(ROVER_MIN_SPEED), Px(ROVER_MAX_SPEED)))
          /\ SpeedsRespawn \subseteq
                 {randomRange(r, Px(ROVER_MIN_SPEED), Px(ROVER_MAX_SPEED)) :
                     r \in Randoms}
          /\ respawnsInPlace =>
                 \A i \in 1..Len(rovers) : SpeedInRange(rovers[i].speed))
    /\ [][(respawnsInPlace /\ last'.ran) =>
             \A i \in 1..Len(rovers) :
                 IF NeedsRespawn(rovers[i])
                 THEN i \in last'.respawned /\ RespawnedAtSpawn(i)
                 ELSE /\ i \notin last'.respawned
                      /\ rovers'[i].spawn = rovers[i].spawn
                      /\ rovers'[i].despawn = rovers[i].despawn
                      /\ rovers'[i].speed = rovers[i].speed]_vars

\* a rover has been respawned by the second call or a later one: it had a
\* chord and had flown out of the clip rectangle
C21_Witness ==
    /\ respawnsInPlace /\ last.ran /\ last.respawned # {}
    /\ last.lowRun = 2
    /\ \A i \in last.respawned : FiniteVector(rovers[i].location)

(***************************************************************************)
(* The chord and its anchor                                                *)
(***************************************************************************)
\* the y at abscissa x of the line through a and b, which differ in x by a
\* pixel at least
AtX(a, b, x) ==
    Y(a) + ((Y(b) - Y(a)) * ((x - X(a)) \div 1000)) \div ((X(b) - X(a)) \div 1000)

\* p lies on the segment from a to b, to within NearPx pixels
OnSegment(p, a, b) ==
    /\ FiniteVector(a) /\ FiniteVector(b)
    /\ Abs(X(b) - X(a)) >= 1000
    /\ (X(a) <= X(p) /\ X(p) <= X(b)) \/ (X(b) <= X(p) /\ X(p) <= X(a))
    /\ Abs(AtX(a, b, X(p)) - Y(p)) <= Px(NearPx)

\* C22: the segment from the spawn a rover is given, as clamped, to its
\* despawn contains the location the chord was drawn through.
C22_ChordThroughAnchor ==
    \A i \in 1..Len(rovers) :
        (argument # Null /\ rovers[i].spawn # Null) =>
            OnSegment(argument.location, rovers[i].spawn, rovers[i].despawn)

(***************************************************************************)
(* Fixed points                                                            *)
(***************************************************************************)
\* the buffer holds fixed point i at its two offsets
FixedPointInBuffer(i) ==
    /\ delaunayInput[2 * i - 1] = X(fixedPoints[i].location)
    /\ delaunayInput[2 * i] = Y(fixedPoints[i].location)

\* C23: no step adds, removes, reorders, moves or recolours a fixed point,
\* and whenever a board has a buffer, the buffer holds every fixed point's
\* location at the point's own offsets; the star board's fixed vertices
\* keep their values.
C23_FixedPointsFrame ==
    /\ [](delaunayInput # <<>> =>
             \A i \in 1..Len(fixedPoints) : FixedPointInBuffer(i))
    /\ [][/\ fixedPoints' = fixedPoints
          /\ variant = "star" =>
                 SubSeq(fixedVertices', 1, 2 * NUM_FIXED_POINTS)
                     = SubSeq(fixedVertices, 1, 2 * NUM_FIXED_POINTS)]_vars

\* a board with two fixed points has written a moved rover to its buffer
C23_Witness ==
    /\ respawnsInPlace /\ last.ran /\ Len(fixedPoints) = 2 /\ Len(rovers) = 1
    /\ FiniteVector(rovers[1].location)
    /\ delaunayInput[5] = X(rovers[1].location) /\ delaunayInput[5] # 0

(***************************************************************************)
(* The buffers of the GPU board                                            *)
(***************************************************************************)
RECURSIVE NumTriangles(_)
\* a cell of n polygon entries gives n - 1 triangles
NumTriangles(voronoiCells) ==
    IF voronoiCells = <<>> THEN 0
    ELSE (Len(Head(voronoiCells)) - 1) + NumTriangles(Tail(voronoiCells))

\* C24: the buffers initBuffers uploads hold three (x, y) vertices for each
\* of the n - 1 triangles of every cell of n polygon entries, and one RGBA
\* entry for every vertex: colors.length / 4 = triangles.length / 2.
C24_ParallelBuffers ==
    (variant = "gpu" /\ argument # Null /\ last.ran) =>
        /\ Len(last.rendered.position) = 6 * NumTriangles(argument)
        /\ Len(last.rendered.color) \div 4 = Len(last.rendered.position) \div 2

C26_GovernorNecessity ==
    [][hasGovernor =>
          /\ (~stopped /\ stopped') => last'.lowRun >= cutoffMinFrames + 1
          /\ ~LowFps(StepElapsedMs, cutoffFramerate) =>
                 /\ numFramesBelowCutoff' = 0
                 /\ last'.lowRun = 0
                 /\ stopped' = stopped]_vars

\* a running board has had a low frame and then a frame above the cutoff
C26_Witness ==
    /\ hasGovernor /\ ~stopped /\ last.ran
    /\ previousFrameTimestampMs = MaxClockMs
    /\ numFramesBelowCutoff = 0 /\ last.lowRun = 0

\* C27: while loop() is called by init() and by its own timer only, the
\* count of low frames stays within 0..cutoffMinFrames + 1, and the board is
\* stopped exactly when the count is cutoffMinFrames + 1.
C27_CounterBounded ==
    hasGovernor =>
        /\ 0 <= numFramesBelowCutoff
        /\ numFramesBelowCutoff <= cutoffMinFrames + 1
        /\ stopped <=> (numFramesBelowCutoff = cutoffMinFrames + 1)

\* the board has stopped and no timer is pending
C27_Witness ==
    /\ hasGovernor /\ stopped /\ timers = 0 /\ ~last.ran
    /\ numFramesBelowCutoff = cutoffMinFrames + 1

(***************************************************************************)
(* The travel direction                                                    *)
(***************************************************************************)
\* the chord's ends lie on opposite sides of the canvas in x
OppositeSides(spawn, despawn) ==
    \/ Leq(X(spawn), 0) /\ Leq(xmax, X(despawn))
    \/ Leq(xmax, X(spawn)) /\ Leq(X(despawn), 0)

\* C28: the spawn and the despawn a rover holds lie on opposite sides of the
\* canvas in x, and dTotal.x = despawn.x - spawn.x, by which the mover
\* divides, is not 0.
C28_DirectionDefined ==
    \A i \in 1..Len(rovers) :
        rovers[i].spawn # Null =>
            /\ OppositeSides(rovers[i].spawn, rovers[i].despawn)
            /\ X(minus(rovers[i].despawn, rovers[i].spawn)) # 0

\* C29: the vertex count given to drawArrays is the number of (x, y)
\* vertices in the position buffer initBuffers built for the call, three for
\* each triangle.
C29_VertexCount ==
    (variant = "gpu" /\ argument # Null /\ last.ran) =>
        /\ last.rendered.vertexCount = Len(last.rendered.position) \div 2
        /\ last.rendered.vertexCount = 3 * NumTriangles(argument)

(***************************************************************************)
(* The shooting star                                                       *)
(***************************************************************************)
\* the star's stored position
StarAt(star) ==
    Vector2(fixedVertices[star.vertexIndex + 1], fixedVertices[star.vertexIndex + 2])

\* the entries of the two arrays that are not the star's own
OthersOf(star, vertices, colors) ==
    <<[k \in (1..Len(vertices)) \ {star.vertexIndex + 1, star.vertexIndex + 2}
          |-> vertices[k]],
      [k \in (1..Len(colors)) \ ((star.colorIndex + 1)..(star.colorIndex + 4))
          |-> colors[k]]>>

\* C30: on the star board, from construction on and after every call of
\* ShootingStar.move, the star's stored position lies within the square
\* [0, 255] x [0, 255], and no call changes a vertex or a colour entry that
\* is not the star's own.
C30_StarInField ==
    /\ [](variant = "star" =>
             \A i \in 1..Len(shootingStars) :
                 ~OffField(X(StarAt(shootingStars[i])), Y(StarAt(shootingStars[i]))))
    /\ [][variant = "star" =>
             \A i \in 1..Len(shootingStars) :
                 /\ shootingStars'[i].vertexIndex = shootingStars[i].vertexIndex
                 /\ shootingStars'[i].colorIndex = shootingStars[i].colorIndex
                 /\ OthersOf(shootingStars[i], fixedVertices', fixedVertexColors')
                       = OthersOf(shootingStars[i], fixedVertices,
                                  fixedVertexColors)]_vars

\* a star has left the field, has been reset and has a new colour
C30_Witness ==
    /\ variant = "star" /\ last.ran /\ last.respawned = {1}
    /\ fixedVertexColors[shootingStars[1].colorIndex + 1] = <<"star2", "r">>
    /\ timers = 1
====
